---- MODULE Spec2Model ----
(***************************************************************************)
(* A model of arxiv_scraper.py: the Paper record, the id ordering          *)
(* is_earlier, the RSS and API retrievers, merge_paper_list, the           *)
(* orchestrator get_papers_from_arxiv_rss_api, the driver get_papers and   *)
(* the __main__ block with save_papers.                                    *)
(*                                                                         *)
(* Conventions.  A Python string that the code takes apart character by    *)
(* character (an arxiv id) is a sequence of one-character strings.  An     *)
(* Optional value is None (the empty tuple) or Some(x) (a one-tuple).      *)
(* Dates are whole days.                                                   *)
(***************************************************************************)
EXTENDS Integers, Sequences, FiniteSets, TLC

VARIABLES
    pc,                 \* position of the program / of the function under study
    area,               \* the category being retrieved
    config,             \* value of FILTERING.force_primary in the config
    now,                \* the clock read by datetime.utcnow(), in days
    feed,               \* the feed feedparser.parse returned
    results,            \* the results arxiv.Search(...).results() yielded
    paper_list,         \* orchestrator / RSS retriever / merge: paper_list
    timestamp,          \* orchestrator: timestamp (Optional day)
    last_id,            \* orchestrator / API retriever: last_id (Optional id)
    api_paper_list,     \* orchestrator / merge: api_paper_list
    merged_paper_list,  \* merge_paper_list: merged_paper_list
    all_papers,         \* get_papers / __main__: all_papers
    call_log,           \* retriever calls made by the current orchestrator run
    returned,           \* what each orchestrator run returned, in call order
    error,              \* TRUE once a fetch has raised
    file,               \* contents of output/papers.json
    ts1, ts2,           \* is_earlier: its two arguments
    paper_a, paper_b,   \* two Paper objects being compared
    ret                 \* return value of the function under study

vars == <<pc, area, config, now, feed, results, paper_list, timestamp, last_id,
          api_paper_list, merged_paper_list, all_papers, call_log, returned,
          error, file, ts1, ts2, paper_a, paper_b, ret>>

\* ------------------------------------------------------------------ bounds
MaxLen == 2         \* free-form id strings have at most this many characters
MaxMajor == 1       \* digits before the dot of a generated well-formed id
MaxMinor == 2       \* digits after the dot of a generated well-formed id
MaxList == 2        \* papers in a list handed to merge_paper_list
MaxResults == 2     \* results a search yields to the API retriever
MaxEntries == 2     \* entries of a feed handed to the RSS retriever
MaxRunEntries == 1  \* entries of a feed fetched during a whole run
MaxRunResults == 1  \* results of a search made during a whole run

\* ----------------------------------------------------------------- helpers
None == <<>>
Some(x) == <<x>>

RECURSIVE StringsUpTo(_, _)
StringsUpTo(S, n) ==
    IF n = 0 THEN {<<>>}
    ELSE LET shorter == StringsUpTo(S, n - 1)
         IN  shorter \cup {Append(s, c) : s \in shorter, c \in S}

StringsFromTo(S, lo, hi) == {s \in StringsUpTo(S, hi) : Len(s) >= lo}

\* ---------------------------------------------------------------- is_earlier
Digits == {"1", "2"}
DigitVal == [c \in Digits |-> IF c = "1" THEN 1 ELSE 2]
IdAlphabet == Digits \cup {".", "v", "x"}

\* ts.split('v')[0]: the part of s before its first 'v' (all of s if none)
RECURSIVE SplitV0(_)
SplitV0(s) ==
    IF s = <<>> \/ Head(s) = "v" THEN <<>>
    ELSE <<Head(s)>> \o SplitV0(Tail(s))

\* s.replace('.', '')
RemoveDots(s) == SelectSeq(s, LAMBDA c : c # ".")

\* int(s) on a string over IdAlphabet: Some(value), or None for ValueError
\* (the empty string, or any character that is not a digit)
RECURSIVE DecimalValue(_)
DecimalValue(s) ==
    IF s = <<>> THEN 0
    ELSE 10 * DecimalValue(SubSeq(s, 1, Len(s) - 1)) + DigitVal[s[Len(s)]]

IntParse(s) ==
    IF s # <<>> /\ \A i \in 1..Len(s) : s[i] \in Digits
    THEN Some(DecimalValue(s))
    ELSE None

\* is_earlier with <= in place of <
is_earlier_le(a, b) ==
    LET id1_num == IntParse(RemoveDots(SplitV0(a)))
        id2_num == IntParse(RemoveDots(SplitV0(b)))
    IN  IF id1_num = None \/ id2_num = None THEN FALSE
        ELSE id1_num[1] <= id2_num[1]

\* is_earlier: False when int() raises for either id
is_earlier(a, b) ==
    LET id1_num == IntParse(RemoveDots(SplitV0(a)))
        id2_num == IntParse(RemoveDots(SplitV0(b)))
    IN  IF id1_num = None \/ id2_num = None THEN FALSE
        ELSE id1_num[1] < id2_num[1]

\* the ids is_earlier is exercised on: every short string over the alphabet,
\* and every id <digits>.<digits>[v<digit>] within the digit bounds
Versions == {<<>>} \cup {<<"v", d>> : d \in Digits}
GeneratedIds ==
    {major \o <<".">> \o minor \o v :
        major \in StringsFromTo(Digits, 1, MaxMajor),
        minor \in StringsFromTo(Digits, 1, MaxMinor),
        v \in Versions}
IdStrings == StringsUpTo(IdAlphabet, MaxLen) \cup GeneratedIds


\* ------------------------------------------------------------------- Paper
\* A free-text field is a sequence of tokens: words, separators (",", "\n",
\* " "), markup tags ("<a>", "</a>") and HTML entities ("&amp;").
Paper(authors, title, abstract, arxiv_id) ==
    [authors |-> authors, title |-> title, abstract |-> abstract,
     arxiv_id |-> arxiv_id]

\* the __eq__ that @dataclass generates: same class and equal field tuples
PaperEq(x, y) ==
    <<x.authors, x.title, x.abstract, x.arxiv_id>>
        = <<y.authors, y.title, y.abstract, y.arxiv_id>>

\* hash() of a string, as a number in 0 .. 3; distinct strings may collide
StrHash(s) ==
    IF IntParse(RemoveDots(s)) = None THEN Len(s) % 4
    ELSE IntParse(RemoveDots(s))[1] % 4

\* Paper.__hash__
PaperHash(x) == StrHash(x.arxiv_id)

\* -------------------------------------------------------- text normalisation
IsMarkup(tok) == tok \in {"<a>", "</a>"}

\* re.sub("<[^<]+?>", "", text)
StripMarkup(text) == SelectSeq(text, LAMBDA tok : ~IsMarkup(tok))

\* html.unescape(text)
Unescape(text) ==
    [i \in 1..Len(text) |-> IF text[i] = "&amp;" THEN "&" ELSE text[i]]

\* re.sub("\n", " ", text)
NewlinesToSpaces(text) ==
    [i \in 1..Len(text) |-> IF text[i] = "\n" THEN " " ELSE text[i]]

\* text.replace("\n", ", ")
RECURSIVE NewlinesToCommas(_)
NewlinesToCommas(text) ==
    IF text = <<>> THEN <<>>
    ELSE (IF Head(text) = "\n" THEN <<",", " ">> ELSE <<Head(text)>>)
            \o NewlinesToCommas(Tail(text))

\* text.split(","): the pieces between the commas, empty pieces included
RECURSIVE SplitCommas(_, _)
SplitCommas(text, piece) ==
    IF text = <<>> THEN <<piece>>
    ELSE IF Head(text) = "," THEN <<piece>> \o SplitCommas(Tail(text), <<>>)
    ELSE SplitCommas(Tail(text), Append(piece, Head(text)))

\* text.strip()
RECURSIVE Strip(_)
Strip(text) ==
    IF text = <<>> THEN <<>>
    ELSE IF Head(text) \in {" ", "\n"} THEN Strip(Tail(text))
    ELSE IF text[Len(text)] \in {" ", "\n"}
         THEN Strip(SubSeq(text, 1, Len(text) - 1))
    ELSE text

\* the authors comprehension of the RSS retriever
RssAuthors(author) ==
    LET pieces == SplitCommas(NewlinesToCommas(author), <<>>)
    IN  [i \in 1..Len(pieces) |-> Strip(Unescape(StripMarkup(pieces[i])))]

\* the summary clean-up of the RSS retriever
RssSummary(summary) == Unescape(NewlinesToSpaces(StripMarkup(summary)))

\* re.sub(r"\(arXiv:[0-9]+\.[0-9]+v[0-9]+ \[.*\]\)$", "", title).strip();
\* the token "(arXiv)" stands for one such parenthetical
RssTitle(title) ==
    Strip(IF title # <<>> /\ title[Len(title)] = "(arXiv)"
          THEN SubSeq(title, 1, Len(title) - 1)
          ELSE title)

\* the summary clean-up of the API retriever
ApiSummary(summary) == Unescape(NewlinesToSpaces(summary))

\* ------------------------------------------------------------ API retriever
\* A search result: id is get_short_id(), categories a list of category codes.
WindowDays == 7

\* truthiness of an Optional[str]: neither None nor ""
TruthyStr(opt) == opt # None /\ opt[1] # <<>>

InList(x, list) == \E i \in 1..Len(list) : list[i] = x

\* end_date and start_date of the query
EndDate(ts, clock) == IF ts # None THEN ts[1] ELSE clock
StartDate(ts, clock) == EndDate(ts, clock) - WindowDays

\* the continue of the result loop
ApiSkips(lid, new_id) == TruthyStr(lid) /\ is_earlier(lid[1], new_id)

\* the result loop: what api_papers holds after the results have been consumed
RECURSIVE ApiLoop(_, _, _, _)
ApiLoop(ar, lid, res, api_papers) ==
    IF res = <<>> THEN api_papers
    ELSE LET result == Head(res)
             new_id == result.id
         IN  IF ApiSkips(lid, new_id)
             THEN ApiLoop(ar, lid, Tail(res), api_papers)
             ELSE IF InList(ar, result.categories)
             THEN ApiLoop(ar, lid, Tail(res),
                          Append(api_papers,
                                 Paper(result.authors, result.title,
                                       ApiSummary(result.summary), new_id)))
             ELSE ApiLoop(ar, lid, Tail(res), api_papers)

\* get_papers_from_arxiv_api, given the results the search yields
get_papers_from_arxiv_api(ar, lid, res) == ApiLoop(ar, lid, res, <<>>)

\* ------------------------------------------------------------ RSS retriever
\* A feed: status, entries, and updated (None when the feed has no such
\* field, else Some([fmt, day])).  An entry: link (its "/"-separated
\* segments), announce_type, tags (each tag's term), title, summary, author.
\* A term is a string of category codes, modelled as the sequence of the
\* codes in it ("" is the empty sequence), so that the substring test
\* `area in paper_area` is membership of the code in that sequence.
NotModified == 304
OkStatus == 200

\* link.split("/")[-1]
LastSegment(link) == link[Len(link)]

\* config.get("FILTERING", "force_primary", fallback="false").strip().lower()
StripLower(s) == IF s = " True " THEN "true" ELSE s
ForcePrimaryValue(cfg) == StripLower(IF cfg = None THEN "false" ELSE cfg[1])
ForcePrimary(cfg) == ForcePrimaryValue(cfg) = "true"

\* datetime.strptime(updated_field, "%a, %d %b %Y %H:%M:%S +0000") under the
\* try/except: only the RFC-822 form parses
ParseUpdated(updated_field) ==
    IF updated_field = None THEN None
    ELSE IF updated_field[1].fmt = "rfc822" THEN Some(updated_field[1].day)
    ELSE None

\* paper.tags[0].term if 'tags' in paper and len(paper.tags) > 0 else ""
PaperArea(entry) == IF Len(entry.tags) > 0 THEN entry.tags[1] ELSE <<>>

\* area in paper_area
AreaInTerm(ar, term) == InList(ar, term)

\* the body of the entry loop: TRUE when the entry is appended to paper_list
RssKeeps(ar, cfg, entry) ==
    /\ entry.announce_type = "new"
    /\ ~(<<ar>> # PaperArea(entry) /\ ForcePrimary(cfg))
    /\ AreaInTerm(ar, PaperArea(entry))

RssPaper(entry) ==
    Paper(RssAuthors(entry.author), RssTitle(entry.title),
          RssSummary(entry.summary), LastSegment(entry.link))

RECURSIVE RssLoop(_, _, _, _)
RssLoop(ar, cfg, entries, acc) ==
    IF entries = <<>> THEN acc
    ELSE RssLoop(ar, cfg, Tail(entries),
                 IF RssKeeps(ar, cfg, Head(entries))
                 THEN Append(acc, RssPaper(Head(entries)))
                 ELSE acc)

\* get_papers_from_arxiv_rss, given the feed the fetch returns:
\* <<paper_list, timestamp, last_id>>
get_papers_from_arxiv_rss(ar, cfg, fd) ==
    IF fd.status = NotModified THEN <<<<>>, None, None>>
    ELSE IF Len(fd.entries) = 0 THEN <<<<>>, None, None>>
    ELSE <<RssLoop(ar, cfg, fd.entries, <<>>),
           ParseUpdated(fd.updated),
           Some(LastSegment(fd.entries[1].link))>>

\* ------------------------------------------------------------------- merge
IdsOf(list) == {list[i].arxiv_id : i \in 1..Len(list)}

RECURSIVE MergeLoop(_, _, _)
MergeLoop(rss, api_set, merged) ==
    IF rss = <<>> THEN merged
    ELSE MergeLoop(Tail(rss), api_set,
                   IF Head(rss).arxiv_id \notin api_set
                   THEN Append(merged, Head(rss))
                   ELSE merged)

\* a merge that starts from the RSS list instead of the API list
merge_rss_first(rss, api) == MergeLoop(api, IdsOf(rss), rss)

\* merge_paper_list
merge_paper_list(rss, api) == MergeLoop(rss, IdsOf(api), api)


\* ================================================================ is_earlier
\* values of the variables a specification does not use
NoPaper == Paper(<<>>, <<>>, <<>>, <<>>)
NoFeed == [status |-> OkStatus, entries |-> <<>>, updated |-> None]

pipelineVars == <<area, config, now, feed, results, paper_list, timestamp,
                  last_id, api_paper_list, merged_paper_list, all_papers,
                  call_log, returned, error, file>>

PipelineIdle ==
    /\ area = "cs.AI" /\ config = None /\ now = 0 /\ feed = NoFeed
    /\ results = <<>> /\ paper_list = <<>> /\ timestamp = None
    /\ last_id = None /\ api_paper_list = <<>> /\ merged_paper_list = <<>>
    /\ all_papers = <<>> /\ call_log = <<>> /\ returned = <<>>
    /\ error = FALSE /\ file = <<>>

InitEarlier ==
    /\ pc = "call"
    /\ ts1 \in IdStrings
    /\ ts2 \in IdStrings
    /\ paper_a = NoPaper /\ paper_b = NoPaper
    /\ ret = None
    /\ PipelineIdle

CallIsEarlier ==
    /\ pc = "call"
    /\ ret' = is_earlier(ts1, ts2)
    /\ pc' = "returned"
    /\ UNCHANGED <<ts1, ts2, paper_a, paper_b>>
    /\ UNCHANGED pipelineVars

NextEarlier == CallIsEarlier

SpecEarlier == InitEarlier /\ [][NextEarlier]_vars

\* --- the id form and the id number, read off the id-ordering rule
AllDigits(s, lo, hi) == lo <= hi /\ \A i \in lo..hi : s[i] \in Digits

\* <digits>.<digits> optionally followed by v<digits>
WellFormed(s) ==
    \E dot \in 1..Len(s) : \E last \in (dot + 1)..Len(s) :
        /\ s[dot] = "."
        /\ AllDigits(s, 1, dot - 1)
        /\ AllDigits(s, dot + 1, last)
        /\ \/ last = Len(s)
           \/ /\ last + 1 < Len(s)
              /\ s[last + 1] = "v"
              /\ AllDigits(s, last + 2, Len(s))

\* where the version suffix starts (Len(s) + 1 when there is none)
VersionStart(s) ==
    IF \E i \in 1..Len(s) : s[i] = "v"
    THEN CHOOSE i \in 1..Len(s) : s[i] = "v" /\ \A j \in 1..(i - 1) : s[j] # "v"
    ELSE Len(s) + 1

RECURSIVE Pow10(_)
Pow10(n) == IF n = 0 THEN 1 ELSE 10 * Pow10(n - 1)

RECURSIVE SumOver(_, _, _)
SumOver(s, positions, stop) ==
    IF positions = {} THEN 0
    ELSE LET i == CHOOSE x \in positions : TRUE
             after == Cardinality({j \in (i + 1)..(stop - 1) : s[j] \in Digits})
         IN  DigitVal[s[i]] * Pow10(after) + SumOver(s, positions \ {i}, stop)

\* the integer a well-formed id denotes: version dropped, dot removed
IdNumber(s) ==
    LET stop == VersionStart(s)
    IN  SumOver(s, {i \in 1..(stop - 1) : s[i] \in Digits}, stop)

\* int() accepts the id: the text before the first v, dots removed, is a
\* non-empty run of digits
Parses(s) ==
    LET stop == VersionStart(s)
    IN  /\ \E i \in 1..(stop - 1) : s[i] \in Digits
        /\ \A i \in 1..(stop - 1) : s[i] \in Digits \cup {"."}

\* two ids that differ at most in their version suffix
SameButVersion(a, b) ==
    SubSeq(a, 1, VersionStart(a) - 1) = SubSeq(b, 1, VersionStart(b) - 1)

\* C9: on well-formed ids is_earlier is the strict order of the id numbers
\* (so an id is not earlier than itself, nor than another version of itself);
\* when either id does not parse, is_earlier returns false.
C9_IsEarlierIsNumericOrder ==
    pc = "returned" =>
        /\ ret \in BOOLEAN
        /\ (WellFormed(ts1) /\ WellFormed(ts2))
              => (ret <=> IdNumber(ts1) < IdNumber(ts2))
        /\ (WellFormed(ts1) /\ WellFormed(ts2) /\ SameButVersion(ts1, ts2))
              => ~ret
        /\ (~Parses(ts1) \/ ~Parses(ts2)) => ~ret

C9_Witness ==
    /\ pc = "returned"
    /\ WellFormed(ts1) /\ WellFormed(ts2)
    /\ VersionStart(ts1) <= Len(ts1)
    /\ VersionStart(ts2) > Len(ts2)
    /\ ret = TRUE

\* ========================================================== Paper equality
PoolIds == {<<"1", ".", "1">>, <<"1", ".", "2">>, <<"2", ".", "1">>}
PoolAuthors == {<<<<"A">>>>, <<<<"A">>, <<"B">>>>}
PoolTitles == {<<"Foo">>, <<"Bar">>}
PoolAbstracts == {<<"x">>, <<"y">>}
PaperPool ==
    {Paper(au, ti, ab, id) :
        au \in PoolAuthors, ti \in PoolTitles, ab \in PoolAbstracts,
        id \in PoolIds}

InitEq ==
    /\ pc = "call"
    /\ paper_a \in PaperPool
    /\ paper_b \in PaperPool
    /\ ts1 = <<>> /\ ts2 = <<>>
    /\ ret = None
    /\ PipelineIdle

\* paper_a == paper_b, hash(paper_a), hash(paper_b)
ComparePapers ==
    /\ pc = "call"
    /\ ret' = [eq |-> PaperEq(paper_a, paper_b),
               hash_a |-> PaperHash(paper_a),
               hash_b |-> PaperHash(paper_b)]
    /\ pc' = "returned"
    /\ UNCHANGED <<ts1, ts2, paper_a, paper_b>>
    /\ UNCHANGED pipelineVars

NextEq == ComparePapers

SpecEq == InitEq /\ [][NextEq]_vars

\* C5: two papers are equal exactly when their arxiv_id is the same, whatever
\* their authors, title and abstract; and equal papers have equal hashes.
C5_EqualityIsById ==
    pc = "returned" =>
        /\ ret.eq <=> (paper_a.arxiv_id = paper_b.arxiv_id)
        /\ ret.eq => ret.hash_a = ret.hash_b

\* ==================================================================== merge
MergePapers ==
    {Paper(<<<<"A">>>>, ti, <<"x">>, id) : ti \in PoolTitles, id \in PoolIds}
MergeLists == StringsUpTo(MergePapers, MaxList)

InitMerge ==
    /\ pc = "call"
    /\ paper_list \in MergeLists
    /\ api_paper_list \in MergeLists
    /\ merged_paper_list = <<>>
    /\ call_log = <<>>
    /\ area = "cs.AI" /\ config = None /\ now = 0 /\ feed = NoFeed
    /\ results = <<>> /\ timestamp = None /\ last_id = None
    /\ all_papers = <<>> /\ returned = <<>> /\ error = FALSE /\ file = <<>>
    /\ ts1 = <<>> /\ ts2 = <<>>
    /\ paper_a = NoPaper /\ paper_b = NoPaper
    /\ ret = None

\* what the two argument lists hold once merge_paper_list has returned: the
\* appends go to a copy of the API list, so both are as they were
ArgumentsAfterMerge(rss, api) == [paper_list |-> rss, api_paper_list |-> api]

\* merged_paper_list = merge_paper_list(paper_list, api_paper_list)
CallMerge ==
    /\ pc = "call"
    /\ call_log' = <<[fn |-> "merge_paper_list", paper_list |-> paper_list,
                      api_paper_list |-> api_paper_list]>>
    /\ merged_paper_list' = merge_paper_list(paper_list, api_paper_list)
    /\ paper_list' =
          ArgumentsAfterMerge(paper_list, api_paper_list).paper_list
    /\ api_paper_list' =
          ArgumentsAfterMerge(paper_list, api_paper_list).api_paper_list
    /\ pc' = "returned"
    /\ UNCHANGED <<area, config, now, feed, results, timestamp, last_id,
                   all_papers, returned, error, file, ts1, ts2, paper_a,
                   paper_b, ret>>

NextMerge == CallMerge

SpecMerge == InitMerge /\ [][NextMerge]_vars

WithId(list, id) == SelectSeq(list, LAMBDA x : x.arxiv_id = id)

\* the RSS papers whose id does not occur in the API list, in RSS order
UnseenRss(rss, api) ==
    SelectSeq(rss, LAMBDA x : \A j \in 1..Len(api) : api[j].arxiv_id # x.arxiv_id)

\* C3: the merged list is the API list in its order followed by the RSS papers
\* whose id is not in the API list, in RSS order; for an id in both lists the
\* output holds the API list's copies and nothing else; the inputs are intact.
C3_MergeIsApiThenUnseenRss ==
    pc = "returned" =>
        LET rss == call_log[1].paper_list
            api == call_log[1].api_paper_list
        IN  /\ merged_paper_list = api \o UnseenRss(rss, api)
            /\ \A id \in IdsOf(api) :
                  WithId(merged_paper_list, id) = WithId(api, id)
            /\ paper_list = rss
            /\ api_paper_list = api

\* an id in both lists with different titles, and an RSS paper that is kept
C3_Witness ==
    /\ pc = "returned"
    /\ \E i \in 1..Len(paper_list) : \E j \in 1..Len(api_paper_list) :
          /\ paper_list[i].arxiv_id = api_paper_list[j].arxiv_id
          /\ paper_list[i] # api_paper_list[j]
    /\ Len(merged_paper_list) > Len(api_paper_list)

UniqueById(list) ==
    \A i, j \in 1..Len(list) : list[i].arxiv_id = list[j].arxiv_id => i = j

\* C4: the merged list never holds an arxiv_id twice, whatever the inputs.
C4_MergedIsUniqueById ==
    pc = "returned" => UniqueById(merged_paper_list)


\* ============================================================ API retriever
area_list == <<"cs.AI", "cs.LG">>
Areas == {area_list[i] : i \in 1..Len(area_list)}

\* the day utcnow() falls on, and the day of the feed's updated field
Today == 20
FeedDay == Today - 1

CategoryLists == {<<"cs.AI">>, <<"cs.LG">>, <<"cs.AI", "cs.LG">>}
ApiTitle == <<"Foo">>
ApiRawSummary == <<"x", "\n", "&amp;", "y">>
ApiAuthors == <<<<"A">>, <<"B">>>>
SearchResult(id, cats) ==
    [id |-> id, title |-> ApiTitle, summary |-> ApiRawSummary,
     authors |-> ApiAuthors, categories |-> cats]
SearchResults == {SearchResult(id, cats) : id \in PoolIds, cats \in CategoryLists}

OptionalIds == {None} \cup {Some(id) : id \in PoolIds \cup {<<>>}}
OptionalDays == {None, Some(FeedDay)}

\* the query sent by one call of the API retriever
ApiCall(ar, ts, lid, clock, papers) ==
    [fn |-> "get_papers_from_arxiv_api", area |-> ar,
     start_date |-> StartDate(ts, clock), end_date |-> EndDate(ts, clock),
     last_id |-> lid, ret |-> papers]

InitApi ==
    /\ pc = "call"
    /\ area \in Areas
    /\ timestamp \in OptionalDays
    /\ last_id \in OptionalIds
    /\ results \in StringsUpTo(SearchResults, MaxResults)
    /\ now = Today
    /\ call_log = <<>>
    /\ ret = None
    /\ config = None /\ feed = NoFeed /\ paper_list = <<>>
    /\ api_paper_list = <<>> /\ merged_paper_list = <<>> /\ all_papers = <<>>
    /\ returned = <<>> /\ error = FALSE /\ file = <<>>
    /\ ts1 = <<>> /\ ts2 = <<>>
    /\ paper_a = NoPaper /\ paper_b = NoPaper

\* ret = get_papers_from_arxiv_api(area, timestamp, last_id)
CallApi ==
    /\ pc = "call"
    /\ ret' = get_papers_from_arxiv_api(area, last_id, results)
    /\ call_log' = <<ApiCall(area, timestamp, last_id, now, ret')>>
    /\ pc' = "returned"
    /\ UNCHANGED <<area, config, now, feed, results, paper_list, timestamp,
                   last_id, api_paper_list, merged_paper_list, all_papers,
                   returned, error, file, ts1, ts2, paper_a, paper_b>>

NextApi == CallApi

SpecApi == InitApi /\ [][NextApi]_vars

\* C2: with a non-empty last_id, a result is skipped exactly when its id is
\* numerically earlier than last_id: no returned paper is earlier than
\* last_id, and a result newer than last_id that lists the requested category
\* is returned.
C2_SkipsExactlyTheEarlier ==
    (pc = "returned" /\ TruthyStr(last_id)) =>
        /\ \A i \in 1..Len(ret) :
              ~(IdNumber(ret[i].arxiv_id) < IdNumber(last_id[1]))
        /\ \A i \in 1..Len(results) :
              (/\ IdNumber(results[i].id) > IdNumber(last_id[1])
               /\ InList(area, results[i].categories))
                  => results[i].id \in IdsOf(ret)
        /\ \A i \in 1..Len(results) :
              InList(area, results[i].categories)
                  => (results[i].id \notin IdsOf(ret)
                        <=> IdNumber(results[i].id) < IdNumber(last_id[1]))

\* ============================================================ RSS retriever
TagLists ==
    {<<>>, <<<<"cs.AI">>>>, <<<<"cs.LG">>>>, <<<<"cs.AI">>, <<"cs.LG">>>>,
     <<<<"cs.LG">>, <<"cs.AI">>>>, <<<<"cs.AI", "cs.LG">>>>}
RssRawTitle == <<"Foo", " ", "(arXiv)">>
RssRawSummary == <<"<a>", "x", "\n", "&amp;", "</a>", "y">>
RssRawAuthor == <<"<a>", "A", "</a>", ",", " ", "B", "\n", "C">>
Link(id) == <<"http:", "", "arxiv.org", "abs", id>>
Entry(id, announce, tags) ==
    [link |-> Link(id), announce_type |-> announce, tags |-> tags,
     title |-> RssRawTitle, summary |-> RssRawSummary, author |-> RssRawAuthor]
Entries ==
    {Entry(id, an, tags) : id \in PoolIds, an \in {"new", "cross"}, tags \in TagLists}
UpdatedFields ==
    {None, Some([fmt |-> "rfc822", day |-> FeedDay]),
           Some([fmt |-> "iso", day |-> FeedDay])}

\* the feeds with at most n entries, no two with the same link; a feed that
\* is not modified carries no entries
DistinctLinks(es) == \A i, j \in 1..Len(es) : es[i].link = es[j].link => i = j
FeedsUpTo(n) ==
    {[status |-> OkStatus, entries |-> es, updated |-> up] :
        es \in {x \in StringsUpTo(Entries, n) : DistinctLinks(x)},
        up \in UpdatedFields}
    \cup {[status |-> NotModified, entries |-> <<>>, updated |-> None]}

ConfigValues == {None, Some("true"), Some(" True "), Some("false")}

InitRss ==
    /\ pc = "call"
    /\ area \in Areas
    /\ config \in ConfigValues
    /\ feed \in FeedsUpTo(MaxEntries)
    /\ paper_list = <<>> /\ timestamp = None /\ last_id = None
    /\ now = Today
    /\ results = <<>> /\ api_paper_list = <<>> /\ merged_paper_list = <<>>
    /\ all_papers = <<>> /\ call_log = <<>> /\ returned = <<>>
    /\ error = FALSE /\ file = <<>>
    /\ ts1 = <<>> /\ ts2 = <<>>
    /\ paper_a = NoPaper /\ paper_b = NoPaper
    /\ ret = None

\* paper_list, timestamp, last_id = get_papers_from_arxiv_rss(area, config)
CallRss ==
    /\ pc = "call"
    /\ LET r == get_papers_from_arxiv_rss(area, config, feed)
       IN  /\ paper_list' = r[1]
           /\ timestamp' = r[2]
           /\ last_id' = r[3]
    /\ pc' = "returned"
    /\ UNCHANGED <<area, config, now, feed, results, api_paper_list,
                   merged_paper_list, all_papers, call_log, returned, error,
                   file, ts1, ts2, paper_a, paper_b, ret>>

NextRss == CallRss

SpecRss == InitRss /\ [][NextRss]_vars

HasTag(entry, code) == \E k \in 1..Len(entry.tags) : entry.tags[k] = <<code>>

\* C6: requested "cs.LG", a "new" entry whose first tag is "cs.AI": excluded
\* when force_primary is true; included when force_primary is false and
\* "cs.LG" is among the entry's categories.
C6_ForcePrimaryScenario ==
    (pc = "returned" /\ area = "cs.LG") =>
        \A i \in 1..Len(feed.entries) :
            LET entry == feed.entries[i]
                id == LastSegment(entry.link)
            IN  (entry.announce_type = "new" /\ PaperArea(entry) = <<"cs.AI">>)
                  => /\ config = Some("true") => id \notin IdsOf(paper_list)
                     /\ (config = Some("false") /\ HasTag(entry, "cs.LG"))
                           => id \in IdsOf(paper_list)


\* ================================================================ whole run
\* __main__: get_papers(config), then save_papers(all_papers, "./output/").
\* The for loop of get_papers has completed Len(returned) iterations.
AsDict(x) ==
    [authors |-> x.authors, title |-> x.title, abstract |-> x.abstract,
     arxiv_id |-> x.arxiv_id]

\* json.dump([dataclasses.asdict(paper) for paper in papers], ...)
JsonDump(papers) == [i \in 1..Len(papers) |-> AsDict(papers[i])]

\* what output/papers.json holds before the run
OldFile == <<AsDict(Paper(<<<<"Z">>>>, <<"Old">>, <<"old">>, <<"1", ".", "1", "v", "1">>))>>

ExtendDays == 7

\* if len(paper_list) == 0
FallbackAlways(rss_papers) == TRUE
FallbackNeeded(rss_papers) == Len(rss_papers) = 0

\* if len(api_paper_list) == 0
RetryNeeded(api_papers) == Len(api_papers) = 0

\* extended_timestamp
ExtendedTimestamp(ts) == IF ts # None THEN Some(ts[1] - ExtendDays) ELSE None

\* all_papers.extend(papers), and an extend that leaves out papers already in
ExtendUnseen(all, papers) ==
    all \o SelectSeq(papers, LAMBDA x : x.arxiv_id \notin IdsOf(all))
Extend(all, papers) == all \o papers

RssCall(ar, papers) ==
    [fn |-> "get_papers_from_arxiv_rss", area |-> ar, ret |-> papers]

Init ==
    /\ pc = "get_papers"
    /\ config \in ConfigValues
    /\ now = Today
    /\ file = OldFile
    /\ all_papers = <<>>
    /\ returned = <<>>
    /\ call_log = <<>>
    /\ error = FALSE
    /\ area = area_list[1]
    /\ paper_list = <<>> /\ timestamp = None /\ last_id = None
    /\ api_paper_list = <<>>
    /\ feed = NoFeed /\ results = <<>> /\ merged_paper_list = <<>>
    /\ ts1 = <<>> /\ ts2 = <<>>
    /\ paper_a = NoPaper /\ paper_b = NoPaper
    /\ ret = None

unusedVars == <<feed, results, merged_paper_list, ts1, ts2, paper_a, paper_b, ret>>

\* for area in area_list: enter get_papers_from_arxiv_rss_api(area, config)
ForNextArea ==
    /\ pc = "get_papers"
    /\ Len(returned) < Len(area_list)
    /\ area' = area_list[Len(returned) + 1]
    /\ call_log' = <<>>
    /\ paper_list' = <<>> /\ timestamp' = None /\ last_id' = None
    /\ api_paper_list' = <<>>
    /\ pc' = "rss"
    /\ UNCHANGED <<config, now, all_papers, returned, error, file>>
    /\ UNCHANGED unusedVars

\* the RSS retriever returns
RssReturns ==
    /\ pc = "rss"
    /\ \E fd \in FeedsUpTo(MaxRunEntries) :
          LET r == get_papers_from_arxiv_rss(area, config, fd)
          IN  /\ paper_list' = r[1]
              /\ timestamp' = r[2]
              /\ last_id' = r[3]
              /\ call_log' = Append(call_log, RssCall(area, r[1]))
              /\ pc' = IF FallbackNeeded(r[1]) THEN "api1" ELSE "return"
    /\ UNCHANGED <<area, config, now, api_paper_list, all_papers, returned,
                   error, file>>
    /\ UNCHANGED unusedVars

\* an exception raised by a fetch: no frame between the fetch and the top
\* level has a try around it, so the run ends there
SwallowAndContinue ==
    /\ error' = TRUE
    /\ paper_list' = <<>>
    /\ pc' = "return"
    /\ UNCHANGED <<area, config, now, timestamp, last_id, api_paper_list,
                   all_papers, call_log, returned, file>>
    /\ UNCHANGED unusedVars

Propagate ==
    /\ error' = TRUE
    /\ pc' = "aborted"
    /\ UNCHANGED <<area, config, now, paper_list, timestamp, last_id,
                   api_paper_list, all_papers, call_log, returned, file>>
    /\ UNCHANGED unusedVars

\* feedparser.parse / feed.status raises
RssRaises == pc = "rss" /\ Propagate

\* the first API call returns
Api1Returns ==
    /\ pc = "api1"
    /\ \E res \in StringsUpTo(SearchResults, MaxRunResults) :
          LET api == get_papers_from_arxiv_api(area, last_id, res)
          IN  /\ api_paper_list' = api
              /\ call_log' = Append(call_log,
                                    ApiCall(area, timestamp, last_id, now, api))
              /\ IF RetryNeeded(api)
                 THEN pc' = "api2" /\ UNCHANGED paper_list
                 ELSE pc' = "return" /\ paper_list' = api
    /\ UNCHANGED <<area, config, now, timestamp, last_id, all_papers,
                   returned, error, file>>
    /\ UNCHANGED unusedVars

\* the second API call returns
Api2Returns ==
    /\ pc = "api2"
    /\ \E res \in StringsUpTo(SearchResults, MaxRunResults) :
          LET api == get_papers_from_arxiv_api(area, last_id, res)
          IN  /\ api_paper_list' = api
              /\ call_log' = Append(call_log,
                                    ApiCall(area, ExtendedTimestamp(timestamp),
                                            last_id, now, api))
              /\ paper_list' = api
              /\ pc' = "return"
    /\ UNCHANGED <<area, config, now, timestamp, last_id, all_papers,
                   returned, error, file>>
    /\ UNCHANGED unusedVars

\* the search raises, in the first or in the second API call
ApiRaises == pc \in {"api1", "api2"} /\ Propagate

\* return paper_list; all_papers.extend(papers)
OrchestratorReturns ==
    /\ pc = "return"
    /\ returned' = Append(returned, [area |-> area, papers |-> paper_list])
    /\ all_papers' = Extend(all_papers, paper_list)
    /\ pc' = "get_papers"
    /\ UNCHANGED <<area, config, now, paper_list, timestamp, last_id,
                   api_paper_list, call_log, error, file>>
    /\ UNCHANGED unusedVars

\* return all_papers
GetPapersReturns ==
    /\ pc = "get_papers"
    /\ Len(returned) = Len(area_list)
    /\ pc' = "save"
    /\ UNCHANGED <<area, config, now, paper_list, timestamp, last_id,
                   api_paper_list, all_papers, call_log, returned, error, file>>
    /\ UNCHANGED unusedVars

\* save_papers(all_papers, "./output/")
SavePapers ==
    /\ pc = "save"
    /\ file' = JsonDump(all_papers)
    /\ pc' = "done"
    /\ UNCHANGED <<area, config, now, paper_list, timestamp, last_id,
                   api_paper_list, all_papers, call_log, returned, error>>
    /\ UNCHANGED unusedVars

Next ==
    \/ ForNextArea
    \/ RssReturns
    \/ RssRaises
    \/ Api1Returns
    \/ Api2Returns
    \/ ApiRaises
    \/ OrchestratorReturns
    \/ GetPapersReturns
    \/ SavePapers

Spec == Init /\ [][Next]_vars

IsApiCall(c) == c.fn = "get_papers_from_arxiv_api"
ApiCalls == SelectSeq(call_log, IsApiCall)

\* C1: a non-empty RSS result is returned as it is and the API is not called;
\* after an empty RSS result the API is called once if that call returns
\* papers, twice if it returns none, and never a third time.
C1_FallbackChain ==
    /\ Len(ApiCalls) <= 2
    /\ Len(ApiCalls) > 0 =>
          (call_log[1].fn = "get_papers_from_arxiv_rss" /\ call_log[1].ret = <<>>)
    /\ pc = "return" =>
          /\ call_log[1].fn = "get_papers_from_arxiv_rss"
          /\ call_log[1].ret # <<>> =>
                (Len(ApiCalls) = 0 /\ paper_list = call_log[1].ret)
          /\ call_log[1].ret = <<>> =>
                \/ Len(ApiCalls) = 1 /\ ApiCalls[1].ret # <<>>
                \/ Len(ApiCalls) = 2 /\ ApiCalls[1].ret = <<>>

C1_Witness ==
    /\ pc = "return"
    /\ Len(ApiCalls) = 2
    /\ ApiCalls[2].ret # <<>>

\* C7: get_papers runs the orchestrator for cs.AI, then for cs.LG, and returns
\* the first result followed by the second, nothing removed.
C7_ConcatenatesPerCategory ==
    pc \in {"save", "done"} =>
        /\ Len(returned) = 2
        /\ returned[1].area = "cs.AI"
        /\ returned[2].area = "cs.LG"
        /\ all_papers = returned[1].papers \o returned[2].papers
        /\ Len(all_papers) = Len(returned[1].papers) + Len(returned[2].papers)

\* a paper returned for both categories, there twice
C7_Witness ==
    /\ pc = "done"
    /\ \E i \in 1..Len(returned[1].papers) : \E j \in 1..Len(returned[2].papers) :
          returned[1].papers[i] = returned[2].papers[j]
    /\ Len(all_papers) = 2

\* C8: when RSS and the first API call both return nothing, the second API
\* call's reference timestamp is exactly 7 days before the first call's, with
\* the same last_id, also when RSS gave no timestamp.
C8_SecondWindowSevenDaysEarlier ==
    Len(ApiCalls) = 2 =>
        /\ ApiCalls[2].end_date = ApiCalls[1].end_date - 7
        /\ ApiCalls[2].last_id = ApiCalls[1].last_id

\* C10: once a fetch has raised, the run is over and papers.json is what it
\* was before the run.
C10_ErrorAbortsBeforeSave ==
    error => (pc = "aborted" /\ file = OldFile)

\* the second API attempt for cs.LG raises after cs.AI returned papers
C10_Witness ==
    /\ error
    /\ pc = "aborted"
    /\ area = "cs.LG"
    /\ Len(ApiCalls) = 1
    /\ Len(all_papers) > 0

====
